---- MODULE Spec2Model ----
(***************************************************************************)
(* Model of src/applier.rs: the strict, line-number-anchored applier       *)
(* `apply` and the fuzzy, content-anchored applier `find_replace_apply`.   *)
(* Text is a sequence of one-character strings; a line is such a sequence  *)
(* without a line terminator.                                              *)
(***************************************************************************)
EXTENDS Integers, Sequences, FiniteSets, TLC

\* ------------------------------------------------------------------ bounds
MaxLines == 3
MaxHunks == 2
MaxPatchLines == 3

\* ------------------------------------------------------------------- text
NL == "\n"
CR == "\r"

Texts == {<<>>, <<"a">>}

\* One piece of str::split_inclusive('\n') as str::lines maps it: the '\n'
\* suffix is stripped and then one '\r' suffix.
StripCR(piece) ==
    IF Len(piece) > 0 /\ piece[Len(piece)] = CR
    THEN SubSeq(piece, 1, Len(piece) - 1)
    ELSE piece

RECURSIVE LinesFrom(_, _, _, _)
LinesFrom(s, i, cur, acc) ==
    IF i > Len(s)
    THEN (IF cur = <<>> THEN acc ELSE Append(acc, cur))
    ELSE IF s[i] = NL
         THEN LinesFrom(s, i + 1, <<>>, Append(acc, StripCR(cur)))
         ELSE LinesFrom(s, i + 1, Append(cur, s[i]), acc)

\* content.lines().collect()
Lines(s) == LinesFrom(s, 1, <<>>, <<>>)

RECURSIVE Join(_)
\* v.join("\n")
Join(v) ==
    IF v = <<>> THEN <<>>
    ELSE IF Len(v) = 1 THEN v[1]
    ELSE v[1] \o <<NL>> \o Join(Tail(v))

\* --------------------------------------------------------------- inputs
LineSeqs == UNION {[1..k -> Texts] : k \in 0..MaxLines}
Terminators == {<<>>, <<NL>>, <<CR, NL>>}
ContentSet == {Join(ls) \o t : ls \in LineSeqs, t \in Terminators}

Context(text) == [tag |-> "Context", text |-> text]
Add(text) == [tag |-> "Add", text |-> text]
Remove(text) == [tag |-> "Remove", text |-> text]
LineSet == {Context(t) : t \in Texts} \cup {Add(t) : t \in Texts}
               \cup {Remove(t) : t \in Texts}
Starts == 0..(MaxLines + 1)
\* The hunks of at most n lines.
HunkSet == [n \in 0..MaxPatchLines |->
               {[old_range |-> [start |-> s], lines |-> ls] :
                   s \in Starts,
                   ls \in UNION {[1..k -> LineSet] : k \in 0..n}}]

NoHunk == [old_range |-> [start |-> 0], lines |-> <<>>]

\* ------------------------------------------------------------- results
NoResult == [kind |-> "None"]
Ok(output) == [kind |-> "Ok", output |-> output]
LineOutOfBounds(line, total_lines) ==
    [kind |-> "LineOutOfBounds", line |-> line, total_lines |-> total_lines]
ContextMismatch(line, expected, actual) ==
    [kind |-> "ContextMismatch", line |-> line, expected |-> expected,
     actual |-> actual]
HunkNotFound == [kind |-> "HunkNotFound"]
\* A slice index out of range: the thread panics, nothing is returned.
Panic == [kind |-> "Panic"]

VARIABLES
    mode,           \* which applier runs: "strict", "fuzzy", or "both" in turn
    lines,          \* apply: content.lines()
    end_newline,    \* patch.end_newline
    patch,          \* the hunks iterated so far, kept when mode = "both"
    patch_lines,    \* number of Line entries of patch.hunks iterated so far
    hunks_done,     \* number of hunks of patch.hunks iterated so far
    hunk,           \* apply: the hunk of the current iteration
    current_line,   \* apply: cursor in lines
    hunk_old_line,  \* apply: hunk-local cursor
    result,         \* apply: output buffer of lines
    last_read,      \* index i of the latest read lines[i], -1 before any
    pc,             \* position in apply
    ret,            \* value returned by apply
    \* history of the patch, for the properties stated on declared positions
    old_read,       \* Context/Remove lines of the current hunk iterated so far
    unread_old,     \* Context/Remove lines of the current hunk never iterated
    prev_end,       \* declared position following the previous hunk's old block
    well_formed,    \* hunks so far: start >= 1, ascending, not overlapping
    first_bad,      \* first Context/Remove line not matching at its declared position
    first_oob,      \* first Context/Remove line declared beyond the last input line
    expected,       \* input lines with the old blocks so far replaced
    \* find_replace_apply
    content_lines,  \* the working copy of content.lines()
    fhunks_done,    \* number of hunks of patch.hunks iterated so far
    fpatch_lines,   \* number of Line entries of the hunks iterated so far
    fhunk,          \* the hunk of the latest iteration
    best_index,     \* best_index of the latest iteration, -1 for None
    fret,           \* value returned by find_replace_apply
    original,       \* content.lines() as find_replace_apply was called
    before          \* content_lines as the latest iteration began

strictVars == <<lines, end_newline, patch, patch_lines, hunks_done, hunk,
                current_line, hunk_old_line, result, last_read, pc, ret,
                old_read, unread_old, prev_end, well_formed, first_bad,
                first_oob, expected>>

fuzzyVars == <<content_lines, fhunks_done, fpatch_lines, fhunk, best_index,
               fret, original, before>>

vars == <<mode, strictVars, fuzzyVars>>

\* ------------------------------------------------------------ apply
\* A variant that takes old_range.start as a 0-based index.
StartIndexZeroBased(h) == h.old_range.start

\* apply, lines 97-101
StartIndex(h) ==
    IF h.old_range.start > 0 THEN h.old_range.start - 1 ELSE 0

\* A variant whose bounds test is off by one.
OutOfBoundsOffByOne(i) == i > Len(lines)

\* apply, lines 104, 118, 138: the bounds test before each read of lines
OutOfBounds(i) == i >= Len(lines)

\* A variant that reports the 0-based index.
LineNumberZeroBased(i) == i

\* apply, lines 106, 120, 126, 140, 146: the 1-based number of index i
LineNumber(i) == i + 1

\* apply, lines 165-168
Output(res, newline) ==
    LET output == Join(res)
    IN IF output /= <<>> /\ newline THEN output \o <<NL>> ELSE output

\* The declared position of the Context/Remove line being iterated:
\* old_range.start plus the Context/Remove lines preceding it in the hunk.
DeclaredPos == hunk.old_range.start + old_read

NoLine == [pos |-> 0, text |-> <<>>, tag |-> "None"]
NoOob == [pos |-> 0, start |-> 0]

MatchesAt(pos, text) == pos \in 1..Len(lines) /\ lines[pos] = text

\* The patch as recorded when mode = "both".
WithHunk(p, h) == IF mode = "both" THEN Append(p, h) ELSE p
WithLine(p, l) ==
    IF mode = "both"
    THEN [p EXCEPT ![Len(p)].lines = Append(@, l)]
    ELSE p

\* the locals of apply as it begins
InitCursor ==
    /\ end_newline = FALSE
    /\ patch = <<>>
    /\ patch_lines = 0
    /\ hunks_done = 0
    /\ hunk = NoHunk
    /\ current_line = 0
    /\ hunk_old_line = 0
    /\ result = <<>>
    /\ last_read = -1
    /\ pc = "for_hunk"
    /\ ret = NoResult
    /\ old_read = 0
    /\ unread_old = 0
    /\ prev_end = 1
    /\ well_formed = TRUE
    /\ first_bad = NoLine
    /\ first_oob = NoOob
    /\ expected = <<>>

\* apply is called on some content
InitApply ==
    /\ lines \in {Lines(content) : content \in ContentSet}
    /\ InitCursor

\* apply not called
IdleApply ==
    /\ lines = <<>>
    /\ InitCursor

\* find_replace_apply not called
IdleFuzzy ==
    /\ content_lines = <<>>
    /\ original = <<>>
    /\ fhunks_done = 0
    /\ fpatch_lines = 0
    /\ fhunk = NoHunk
    /\ best_index = -1
    /\ fret = NoResult
    /\ before = <<>>

\* apply is called on some content and some patch
Init ==
    /\ mode = "strict"
    /\ InitApply
    /\ IdleFuzzy

HunkLimit == IF mode = "both" THEN 1 ELSE MaxHunks

\* for hunk in &patch.hunks: the next hunk of the patch
NextHunk ==
    /\ pc = "for_hunk"
    /\ hunks_done < HunkLimit
    /\ \E s \in Starts :
          /\ hunk' = [old_range |-> [start |-> s], lines |-> <<>>]
          /\ patch' = WithHunk(patch, [old_range |-> [start |-> s],
                                       lines |-> <<>>])
          /\ well_formed' = (well_formed /\ s >= 1 /\ s >= prev_end)
          /\ expected' = IF well_formed /\ s >= 1 /\ s >= prev_end
                            /\ s - 1 <= Len(lines)
                         THEN expected \o SubSeq(lines, prev_end, s - 1)
                         ELSE expected
    /\ hunks_done' = hunks_done + 1
    /\ old_read' = 0
    /\ pc' = "copy"
    /\ UNCHANGED <<mode, lines, end_newline, patch_lines, current_line,
                   hunk_old_line, result, last_read, ret, unread_old,
                   prev_end, first_bad, first_oob>>

\* while current_line < start: one iteration
CopyBefore ==
    /\ pc = "copy"
    /\ current_line < StartIndex(hunk)
    /\ IF OutOfBounds(current_line)
       THEN /\ ret' = LineOutOfBounds(LineNumber(current_line), Len(lines))
            /\ pc' = "done"
            /\ unread_old' \in 0..(MaxPatchLines - patch_lines)
            /\ UNCHANGED <<result, current_line, last_read>>
       ELSE IF current_line >= Len(lines)
       THEN /\ ret' = Panic
            /\ pc' = "done"
            /\ last_read' = current_line
            /\ UNCHANGED <<result, current_line, unread_old>>
       ELSE /\ result' = Append(result, lines[current_line + 1])
            /\ last_read' = current_line
            /\ current_line' = current_line + 1
            /\ UNCHANGED <<pc, ret, unread_old>>
    /\ UNCHANGED <<mode, lines, end_newline, patch, patch_lines, hunks_done,
                   hunk, hunk_old_line, old_read, prev_end, well_formed,
                   first_bad, first_oob, expected>>

\* let mut hunk_old_line = current_line
EnterHunk ==
    /\ pc = "copy"
    /\ ~(current_line < StartIndex(hunk))
    /\ hunk_old_line' = current_line
    /\ pc' = "for_line"
    /\ UNCHANGED <<mode, lines, end_newline, patch, patch_lines, hunks_done,
                   hunk, current_line, result, last_read, ret, old_read,
                   unread_old, prev_end, well_formed, first_bad, first_oob, expected>>

\* The bounds and equality checks of Line::Context and Line::Remove
\* (lines 118-130 and 138-150); keep says whether the text is pushed.
Verify(text, keep) ==
    IF OutOfBounds(hunk_old_line)
    THEN /\ ret' = LineOutOfBounds(LineNumber(hunk_old_line), Len(lines))
         /\ pc' = "done"
         /\ unread_old' \in 0..(MaxPatchLines - patch_lines')
         /\ UNCHANGED <<result, hunk_old_line, last_read>>
    ELSE IF hunk_old_line >= Len(lines)
    THEN /\ ret' = Panic
         /\ pc' = "done"
         /\ last_read' = hunk_old_line
         /\ UNCHANGED <<result, hunk_old_line, unread_old>>
    ELSE /\ last_read' = hunk_old_line
         /\ IF lines[hunk_old_line + 1] /= text
            THEN /\ ret' = ContextMismatch(LineNumber(hunk_old_line), text,
                                           lines[hunk_old_line + 1])
                 /\ pc' = "done"
                 /\ unread_old' \in 0..(MaxPatchLines - patch_lines')
                 /\ UNCHANGED <<result, hunk_old_line>>
            ELSE /\ result' = IF keep THEN Append(result, text) ELSE result
                 /\ hunk_old_line' = hunk_old_line + 1
                 /\ UNCHANGED <<pc, ret, unread_old>>

\* What iterating one more Line of hunk.lines adds to the patch's history.
Iterate(line) ==
    /\ patch_lines < MaxPatchLines
    /\ patch_lines' = patch_lines + 1
    /\ patch' = WithLine(patch, line)
    /\ old_read' = IF line.tag = "Add" THEN old_read ELSE old_read + 1
    /\ first_bad' = IF /\ line.tag /= "Add"
                       /\ first_bad = NoLine
                       /\ ~MatchesAt(DeclaredPos, line.text)
                    THEN [pos |-> DeclaredPos, text |-> line.text,
                          tag |-> line.tag]
                    ELSE first_bad
    /\ first_oob' = IF /\ line.tag /= "Add"
                       /\ first_oob = NoOob
                       /\ DeclaredPos > Len(lines)
                    THEN [pos |-> DeclaredPos, start |-> hunk.old_range.start]
                    ELSE first_oob
    /\ expected' = IF line.tag = "Remove" THEN expected
                   ELSE Append(expected, line.text)

LineContext ==
    /\ pc = "for_line"
    /\ \E text \in Texts :
          /\ Iterate(Context(text))
          /\ Verify(text, TRUE)
    /\ UNCHANGED <<mode, lines, end_newline, hunks_done, hunk, current_line,
                   prev_end, well_formed>>

LineAdd ==
    /\ pc = "for_line"
    /\ \E text \in Texts :
          /\ Iterate(Add(text))
          /\ result' = Append(result, text)
    /\ UNCHANGED <<mode, lines, end_newline, hunks_done, hunk, current_line,
                   hunk_old_line, last_read, pc, ret, unread_old, prev_end,
                   well_formed>>

LineRemove ==
    /\ pc = "for_line"
    /\ \E text \in Texts :
          /\ Iterate(Remove(text))
          /\ Verify(text, FALSE)
    /\ UNCHANGED <<mode, lines, end_newline, hunks_done, hunk, current_line,
                   prev_end, well_formed>>

\* hunk.lines is exhausted: current_line = hunk_old_line
LeaveHunk ==
    /\ pc = "for_line"
    /\ current_line' = hunk_old_line
    /\ prev_end' = DeclaredPos
    /\ pc' = "for_hunk"
    /\ UNCHANGED <<mode, lines, end_newline, patch, patch_lines, hunks_done,
                   hunk, hunk_old_line, result, last_read, ret, old_read,
                   unread_old, well_formed, first_bad, first_oob, expected>>

\* patch.hunks is exhausted
EndHunks ==
    /\ pc = "for_hunk"
    /\ pc' = "tail"
    /\ expected' = IF well_formed /\ prev_end - 1 <= Len(lines)
                   THEN expected \o SubSeq(lines, prev_end, Len(lines))
                   ELSE expected
    /\ UNCHANGED <<mode, lines, end_newline, patch, patch_lines, hunks_done,
                   hunk, current_line, hunk_old_line, result, last_read, ret,
                   old_read, unread_old, prev_end, well_formed, first_bad, first_oob>>

\* while current_line < lines.len(): one iteration
CopyAfter ==
    /\ pc = "tail"
    /\ current_line < Len(lines)
    /\ result' = Append(result, lines[current_line + 1])
    /\ last_read' = current_line
    /\ current_line' = current_line + 1
    /\ UNCHANGED <<mode, lines, end_newline, patch, patch_lines, hunks_done,
                   hunk, hunk_old_line, pc, ret, old_read, unread_old,
                   prev_end, well_formed, first_bad, first_oob, expected>>

\* join, end_newline, Ok(output)
Return ==
    /\ pc = "tail"
    /\ ~(current_line < Len(lines))
    /\ \E b \in BOOLEAN :
          /\ end_newline' = b
          /\ ret' = Ok(Output(result, b))
    /\ pc' = "done"
    /\ UNCHANGED <<mode, lines, patch, patch_lines, hunks_done,
                   hunk, current_line, hunk_old_line, result, last_read,
                   old_read, unread_old, prev_end, well_formed, first_bad,
                   first_oob, expected>>

NextApply ==
    \/ NextHunk /\ UNCHANGED fuzzyVars
    \/ CopyBefore /\ UNCHANGED fuzzyVars
    \/ EnterHunk /\ UNCHANGED fuzzyVars
    \/ LineContext /\ UNCHANGED fuzzyVars
    \/ LineAdd /\ UNCHANGED fuzzyVars
    \/ LineRemove /\ UNCHANGED fuzzyVars
    \/ LeaveHunk /\ UNCHANGED fuzzyVars
    \/ EndHunks /\ UNCHANGED fuzzyVars
    \/ CopyAfter /\ UNCHANGED fuzzyVars
    \/ Return /\ UNCHANGED fuzzyVars

Spec == Init /\ [][NextApply]_vars

\* ------------------------------------------------- find_replace_apply
\* lines 193-200: the Context and Remove texts of a hunk, in order
OldLines(h) ==
    LET pick == SelectSeq(h.lines, LAMBDA l : l.tag \in {"Context", "Remove"})
    IN [k \in 1..Len(pick) |-> pick[k].text]

\* lines 203-210: the Context and Add texts of a hunk, in order
NewLines(h) ==
    LET pick == SelectSeq(h.lines, LAMBDA l : l.tag \in {"Context", "Add"})
    IN [k \in 1..Len(pick) |-> pick[k].text]

\* usize::saturating_sub
SaturatingSub(a, b) == IF a >= b THEN a - b ELSE 0

\* A variant whose scan range excludes its upper end (0..n, not 0..=n).
LastOffsetExclusive(working, old_lines) ==
    (IF Len(working) >= Len(old_lines)
     THEN Len(working) - Len(old_lines) ELSE 0) - 1

\* line 218: the last offset the scan visits
LastOffset(working, old_lines) == SaturatingSub(Len(working), Len(old_lines))

\* lines 220-224
Distance(i, target_index) ==
    IF i >= target_index THEN i - target_index ELSE target_index - i

\* A variant that lets a later match at the same distance win.
BetterOrEqual(distance, best) == best.index = -1 \/ distance <= best.distance

\* line 225: whether a match at this distance replaces the best so far
Better(distance, best) == best.index = -1 \/ distance < best.distance

\* lines 218-230: the scan from offset i on; best is (best_index,
\* best_distance) so far. Slicing working[i..i + len] past its end panics.
RECURSIVE Scan(_, _, _, _, _)
Scan(working, old_lines, target_index, i, best) ==
    IF i > LastOffset(working, old_lines) THEN best
    ELSE IF i + Len(old_lines) > Len(working)
    THEN [index |-> -1, distance |-> 0, panic |-> TRUE]
    ELSE IF /\ SubSeq(working, i + 1, i + Len(old_lines)) = old_lines
            /\ Better(Distance(i, target_index), best)
         THEN Scan(working, old_lines, target_index, i + 1,
                   [index |-> i, distance |-> Distance(i, target_index),
                    panic |-> FALSE])
         ELSE Scan(working, old_lines, target_index, i + 1, best)

\* line 234: Vec::splice(index..index + len, new_lines)
Splice(working, index, len, new_lines) ==
    SubSeq(working, 1, index) \o new_lines
        \o SubSeq(working, index + len + 1, Len(working))

\* line 219: the sequence a hunk is searched in
SearchIn == content_lines

\* line 188: the working copy, taken from these lines of the content
InitFuzzy(content_lines_0) ==
    /\ content_lines = content_lines_0
    /\ original = content_lines_0
    /\ fhunks_done = 0
    /\ fpatch_lines = 0
    /\ fhunk = NoHunk
    /\ best_index = -1
    /\ fret = NoResult
    /\ before = <<>>

\* one iteration of for hunk in &patch.hunks (lines 191-239)
ApplyHunk(h) ==
    /\ fret = NoResult
    /\ fhunk = NoHunk
    /\ fhunk' = h
    /\ fhunks_done' = fhunks_done + 1
    /\ fpatch_lines' = fpatch_lines + Len(h.lines)
    /\ before' = content_lines
    /\ \E old_lines \in {OldLines(h)} :
       \E found \in {Scan(SearchIn, old_lines, h.old_range.start, 0,
                          [index |-> -1, distance |-> 0, panic |-> FALSE])} :
          /\ best_index' = found.index
          /\ IF found.panic
             THEN /\ fret' = Panic
                  /\ UNCHANGED content_lines
             ELSE IF found.index /= -1
             THEN /\ content_lines' = Splice(content_lines, found.index,
                                             Len(old_lines), NewLines(h))
                  /\ UNCHANGED fret
             ELSE /\ fret' = HunkNotFound
                  /\ UNCHANGED content_lines
    /\ UNCHANGED original

\* line 239: the iteration ends and its locals are dropped
EndIteration ==
    /\ fret = NoResult
    /\ fhunk /= NoHunk
    /\ fhunk' = NoHunk
    /\ best_index' = -1
    /\ before' = <<>>
    /\ UNCHANGED <<content_lines, fhunks_done, fpatch_lines, fret, original>>
    /\ UNCHANGED <<mode, strictVars>>

\* lines 242-243
ReturnJoined ==
    /\ fret = NoResult
    /\ fhunk = NoHunk
    /\ fret' = Ok(Join(content_lines))
    /\ UNCHANGED <<content_lines, fhunks_done, fpatch_lines, fhunk,
                   best_index, original, before>>

\* find_replace_apply alone: the next hunk of some patch
FuzzyHunk ==
    /\ mode = "fuzzy"
    /\ fhunks_done < MaxHunks
    /\ \E h \in HunkSet[MaxPatchLines - fpatch_lines] : ApplyHunk(h)
    /\ UNCHANGED <<mode, strictVars>>

\* find_replace_apply alone: patch.hunks is exhausted
FuzzyReturn ==
    /\ mode = "fuzzy"
    /\ ReturnJoined
    /\ UNCHANGED <<mode, strictVars>>

\* find_replace_apply is called on some content and some patch
InitF ==
    /\ mode = "fuzzy"
    /\ IdleApply
    /\ \E content \in ContentSet : InitFuzzy(Lines(content))

NextFuzzy ==
    \/ FuzzyHunk
    \/ EndIteration
    \/ FuzzyReturn

SpecFuzzy == InitF /\ [][NextFuzzy]_vars

\* ------------------------------- both appliers on one content and patch
\* find_replace_apply on the patch apply has returned Ok for: its next hunk
BothHunk ==
    /\ mode = "both"
    /\ pc = "done" /\ ret.kind = "Ok"
    /\ fhunks_done < Len(patch)
    /\ ApplyHunk(patch[fhunks_done + 1])
    /\ UNCHANGED <<mode, strictVars>>

BothReturn ==
    /\ mode = "both"
    /\ pc = "done" /\ ret.kind = "Ok"
    /\ fhunks_done = Len(patch)
    /\ ReturnJoined
    /\ UNCHANGED <<mode, strictVars>>

InitBoth ==
    /\ mode = "both"
    /\ InitApply
    /\ InitFuzzy(lines)

NextBoth ==
    \/ NextApply
    \/ BothHunk
    \/ EndIteration
    \/ BothReturn

SpecBoth == InitBoth /\ [][NextBoth]_vars

\* ================================================================ claims
Max(a, b) == IF a >= b THEN a ELSE b
Min(a, b) == IF a <= b THEN a ELSE b
Abs(x) == IF x >= 0 THEN x ELSE 0 - x

EndsWithNL(s) == s /= <<>> /\ s[Len(s)] = NL

\* The declared position of the first Context/Remove line of the patch that
\* lies beyond the last input line, 0 if there is none: among the lines
\* apply iterated it is first_oob; the unread Context/Remove lines of the
\* hunk apply stopped in follow at DeclaredPos, DeclaredPos + 1, ...
FirstOob ==
    IF first_oob /= NoOob THEN first_oob
    ELSE IF unread_old > 0 /\ DeclaredPos + unread_old - 1 > Len(lines)
         THEN [pos |-> Max(DeclaredPos, Len(lines) + 1),
               start |-> hunk.old_range.start]
         ELSE NoOob

\* ---------------------------------------------------------------- C1
\* C1 (as claimed): for a well-formed patch (start >= 1, ascending, not
\* overlapping, every hunk starting at most one past the last line) whose
\* Context/Remove lines all match the input at their declared positions,
\* apply returns Ok and the lines of the output are the input lines with
\* each old block replaced by the hunk's new block.
C1_WellFormedApply ==
    (/\ pc = "done"
     /\ well_formed
     /\ first_bad = NoLine
     /\ unread_old = 0
     /\ hunk.old_range.start - 1 <= Len(lines))
    => /\ ret.kind = "Ok"
       /\ Lines(ret.output) = expected

\* ---------------------------------------------------------------- C6
\* C6 (as claimed): with zero hunks apply returns Ok, the lines of the
\* output are exactly the lines of the input, and a non-empty output ends
\* with a line terminator exactly when end_newline is set.
C6_NoHunks ==
    (pc = "done" /\ hunks_done = 0)
    => /\ ret.kind = "Ok"
       /\ Lines(ret.output) = lines
       /\ (ret.output /= <<>> => (EndsWithNL(ret.output) <=> end_newline))

\* ---------------------------------------------------------------- C4
\* C4 (as claimed): if any Context/Remove line has a declared position
\* beyond the last input line, apply returns LineOutOfBounds with that
\* position (the first such) as line and the input's line count as
\* total_lines.
C4_Original ==
    (pc = "done" /\ FirstOob /= NoOob)
    => ret = LineOutOfBounds(FirstOob.pos, Len(lines))

\* C4 (amended): if some Context/Remove line has a declared position beyond
\* the last input line, apply does not return Ok: it returns ContextMismatch
\* when a line it checked before differs from the input, and otherwise
\* LineOutOfBounds with total_lines = the input's line count n and
\* line = n + 1, which is that declared position (the first such) whenever
\* the line's hunk has old_range.start <= n + 1.
C4_OutOfBounds ==
    (pc = "done" /\ FirstOob /= NoOob)
    => /\ ret.kind \in {"ContextMismatch", "LineOutOfBounds"}
       /\ ret.kind = "LineOutOfBounds"
          => /\ ret.total_lines = Len(lines)
             /\ ret.line = Len(lines) + 1
             /\ FirstOob.start <= Len(lines) + 1 => ret.line = FirstOob.pos

\* A Context/Remove line past the end of the input was reached and reported.
C4_Witness ==
    /\ pc = "done"
    /\ first_oob /= NoOob
    /\ Len(lines) >= 2
    /\ old_read >= 2
    /\ ret = LineOutOfBounds(first_oob.pos, Len(lines))

\* ---------------------------------------------------------------- C5
\* C5 (as claimed): for every patch, if the first Context/Remove line (in
\* patch order) that does not match the input at its declared position is
\* in bounds, apply returns ContextMismatch with that position, the patch
\* line's text and the input line's text.
C5_Original ==
    (pc = "done" /\ first_bad /= NoLine /\ first_bad.pos \in 1..Len(lines))
    => ret = ContextMismatch(first_bad.pos, first_bad.text,
                             lines[first_bad.pos])

\* C5 (amended): the same for every patch whose hunks have
\* old_range.start >= 1, ascend and do not overlap; and for every patch a
\* ContextMismatch names an input line in bounds, carries that line's text
\* as actual, and an expected text that differs from it.
C5_ContextMismatch ==
    /\ (/\ pc = "done"
        /\ well_formed
        /\ first_bad /= NoLine
        /\ first_bad.pos \in 1..Len(lines))
       => ret = ContextMismatch(first_bad.pos, first_bad.text,
                                lines[first_bad.pos])
    /\ ret.kind = "ContextMismatch"
       => /\ ret.line \in 1..Len(lines)
          /\ ret.actual = lines[ret.line]
          /\ ret.expected /= ret.actual

\* A Remove line of the second hunk of a well-formed patch mismatches.
C5_Witness ==
    /\ pc = "done"
    /\ well_formed
    /\ hunks_done = 2
    /\ first_bad.tag = "Remove"
    /\ first_bad.pos \in 2..Len(lines)
    /\ ret.kind = "ContextMismatch"

\* ---------------------------------------------------------------- C9
\* Reads and cursors are in range, and apply ends in one of its three
\* outcomes.
C9_Bounds ==
    /\ last_read < Len(lines)
    /\ current_line \in 0..Len(lines)
    /\ hunk_old_line \in 0..Len(lines)
    /\ pc = "done"
       => ret.kind \in {"Ok", "LineOutOfBounds", "ContextMismatch"}
    /\ pc /= "done" => ret = NoResult

\* C9: on every patch, well-formed or not, every read of an input line is
\* at an index below the number of input lines, the cursors stay within
\* 0..number of lines, apply ends in Ok, LineOutOfBounds or ContextMismatch,
\* and current_line never decreases.
C9_NoCrash == [](C9_Bounds) /\ [][current_line' >= current_line]_vars

\* apply returned Ok on a patch that is not well-formed, after reading the
\* last input line.
C9_Witness ==
    /\ pc = "done"
    /\ ret.kind = "Ok"
    /\ ~well_formed
    /\ hunks_done = 2
    /\ last_read = Len(lines) - 1

\* ------------------------------------------------ find_replace_apply
\* A hunk has just been iterated.
Iterated == fhunk /= NoHunk

\* The offsets of working at which the window of Len(old_lines) lines
\* equals old_lines.
MatchingOffsets(working, old_lines) ==
    {i \in 0..(Len(working) - Len(old_lines)) :
        \A k \in 1..Len(old_lines) : working[i + k] = old_lines[k]}

\* working with the len lines from offset i on replaced by new_lines.
Replaced(working, i, len, new_lines) ==
    [k \in 1..(Len(working) - len + Len(new_lines)) |->
        IF k <= i THEN working[k]
        ELSE IF k <= i + Len(new_lines) THEN new_lines[k - i]
        ELSE working[k - Len(new_lines) + len]]

\* ---------------------------------------------------------------- C2
\* C2: when the old block of a hunk matches at some offsets of the working
\* sequence, the hunk is applied, at the matching offset nearest to
\* old_range.start, the lower one of two equally near, and that window is
\* what is replaced by the new block.
C2_Nearest ==
    LET old_lines == OldLines(fhunk)
        target == fhunk.old_range.start
        M == MatchingOffsets(before, old_lines)
    IN (Iterated /\ M /= {})
       => /\ fret = NoResult
          /\ best_index \in M
          /\ \A j \in M :
                \/ Abs(best_index - target) < Abs(j - target)
                \/ Abs(best_index - target) = Abs(j - target)
                   /\ best_index <= j
          /\ content_lines = Replaced(before, best_index, Len(old_lines),
                                      NewLines(fhunk))

\* Two matching offsets are equally near and the lower one was taken.
C2_Witness ==
    LET old_lines == OldLines(fhunk)
        target == fhunk.old_range.start
        M == MatchingOffsets(before, old_lines)
    IN /\ Iterated
       /\ old_lines /= <<>>
       /\ \E i, j \in M :
             /\ i < j
             /\ target - i = j - target
             /\ best_index = i
       /\ content_lines /= before

\* ---------------------------------------------------------------- C3
\* C3 (as claimed): whatever the lengths, when the old block of a hunk
\* matches at no offset of the working sequence, find_replace_apply returns
\* HunkNotFound.
C3_NotFound ==
    (Iterated /\ MatchingOffsets(before, OldLines(fhunk)) = {})
    => fret = HunkNotFound

\* ---------------------------------------------------------------- C7
\* C7 (as claimed): each hunk is matched against the working sequence left
\* by the hunks before it: where its old block matches there it is applied
\* to that sequence, and a later hunk whose old block the input held and
\* the working sequence no longer holds yields HunkNotFound; once a hunk
\* has failed the working sequence is left alone.
C7_Sequential ==
    LET old_lines == OldLines(fhunk)
        M == MatchingOffsets(before, old_lines)
    IN Iterated
       => /\ M /= {}
             => /\ fret = NoResult
                /\ best_index \in M
                /\ content_lines = Replaced(before, best_index,
                                            Len(old_lines), NewLines(fhunk))
          /\ (/\ fhunks_done >= 2
              /\ MatchingOffsets(original, old_lines) /= {}
              /\ M = {})
             => fret = HunkNotFound
          /\ fret /= NoResult => content_lines = before

\* ---------------------------------------------------------------- C8
\* C8: a hunk without Context and Remove lines never yields HunkNotFound;
\* its Add lines are inserted, in order, at offset
\* min(old_range.start, n) of the n working lines, which all stay in place.
C8_PureInsertion ==
    (Iterated /\ \A k \in 1..Len(fhunk.lines) : fhunk.lines[k].tag = "Add")
    => LET n == Len(before)
           at == Min(fhunk.old_range.start, n)
           adds == [k \in 1..Len(fhunk.lines) |-> fhunk.lines[k].text]
       IN /\ fret = NoResult
          /\ best_index = at
          /\ content_lines = SubSeq(before, 1, at) \o adds
                                \o SubSeq(before, at + 1, n)

\* Two lines are appended by a hunk that starts beyond the last line.
C8_Witness ==
    /\ Iterated
    /\ Len(fhunk.lines) = 2
    /\ \A k \in 1..Len(fhunk.lines) : fhunk.lines[k].tag = "Add"
    /\ fhunk.lines[1].text /= fhunk.lines[2].text
    /\ Len(before) >= 1
    /\ fhunk.old_range.start > Len(before)
    /\ Len(content_lines) = Len(before) + 2

\* --------------------------------------------------------------- C10
\* C10 (as claimed): when apply returns Ok on a single-hunk patch,
\* find_replace_apply returns Ok on the same content and patch, and the two
\* outputs have the same lines or differ by the trailing terminator only.
C10_Agreement ==
    (/\ mode = "both"
     /\ pc = "done" /\ ret.kind = "Ok"
     /\ Len(patch) = 1
     /\ fret /= NoResult)
    => /\ fret.kind = "Ok"
       /\ \/ Lines(ret.output) = Lines(fret.output)
          \/ ret.output = fret.output
          \/ ret.output = fret.output \o <<NL>>

====
